---- MODULE Spec2Model ----
(***************************************************************************)
(* Model of xml2delimiter.py (class XMLProcessor): the template-driven     *)
(* XML -> delimited-text conversion.                                       *)
(*                                                                         *)
(* Representation.                                                         *)
(*  - A Python str is a sequence of atoms (an atom is an unsplittable run  *)
(*    of characters, written as a TLA+ string); '' is <<>>.                *)
(*  - An Optional value (None or a value) is a sequence of length 0 or 1.  *)
(*  - A path / field specifier is a str whose atoms are the tokens of the  *)
(*    expression: ".", "=", "/", "[" and words (maximal runs of \w).       *)
(*  - An XML tree is a table of nodes in document (start tag) order; node  *)
(*    1 is the root element, parent 0.  A detached node has parent -1.     *)
(*  - Serialized XML is a sequence of markup tokens and text atoms.        *)
(***************************************************************************)
EXTENDS Integers, Sequences, FiniteSets, TLC

VARIABLES
    BAR,              \* self.BAR
    STRIP_WHITESPACE, \* self.STRIP_WHITESPACE
    buffer,           \* self.buffer: list of per-subtree output strings
    processed_count,  \* run(): processed_count
    pc,               \* position of run()
    err,              \* the exception that ended run(), "" if none
    source_xml,       \* the input document (as written in the file)
    config,           \* the loaded template
    root_templates,   \* run(): root_templates
    out,              \* bytes written to the output file so far
    tree,             \* iterparse: the parse tree built so far
    parsed,           \* iterparse: number of start tags read so far
    yielded,          \* node_generator: node of the suspended yield, 0 if none
    live,             \* run(): nodeData, Optional (node_str, template)
    history           \* ghost: the subtrees interpreted so far, in order

vars == <<BAR, STRIP_WHITESPACE, buffer, processed_count, pc, err, source_xml,
          config, root_templates, out, tree, parsed, yielded, live, history>>

-----------------------------------------------------------------------------
(* Bounds of the model                                                     *)

\* largest number of <item> elements in a generated document
MaxItems == 4

\* stand-in for self.buffer_size (1000 in __init__, line 20), scaled down so
\* that the flush threshold is crossed by the documents of the model
buffer_size == 2

-----------------------------------------------------------------------------
(* Strings                                                                 *)

None == <<>>
Some(v) == <<v>>

Whitespace == {" ", "\t", "\n"}

RECURSIVE lstrip(_)
lstrip(s) ==
    IF s # <<>> /\ s[1] \in Whitespace THEN lstrip(Tail(s)) ELSE s

RECURSIVE rstrip(_)
rstrip(s) ==
    IF s # <<>> /\ s[Len(s)] \in Whitespace
    THEN rstrip(SubSeq(s, 1, Len(s) - 1)) ELSE s

\* str.strip()
strip(s) == rstrip(lstrip(s))

RECURSIVE Concat(_)
\* ''.join(list)
Concat(ss) == IF ss = <<>> THEN <<>> ELSE ss[1] \o Concat(Tail(ss))

RECURSIVE join(_, _)
\* sep.join(list)
join(sep, ss) ==
    IF ss = <<>> THEN <<>>
    ELSE IF Len(ss) = 1 THEN ss[1]
    ELSE ss[1] \o sep \o join(sep, Tail(ss))

\* the tokens of a path that are not words (\w+)
Punct == {".", "=", "/", "["}
IsWord(tok) == tok \notin Punct

-----------------------------------------------------------------------------
(* XML trees                                                               *)

\* an element: prefix p, local name tag, namespace declarations nsdecl
\* (sequence of declared prefixes, "" the default namespace), attributes
\* (sequence of [p, n, v]), text and tail (Optional str)
Node(parent, p, tag, nsdecl, attrib, text, tail) ==
    [parent |-> parent, p |-> p, tag |-> tag, nsdecl |-> nsdecl,
     attrib |-> attrib, text |-> text, tail |-> tail]

Attr(p, n, v) == [p |-> p, n |-> n, v |-> v]

Ids(t) == 1..Len(t)

RECURSIVE IsAncestor(_, _, _)
\* a is a proper ancestor of n
IsAncestor(t, a, n) ==
    /\ t[n].parent > 0
    /\ (t[n].parent = a \/ IsAncestor(t, a, t[n].parent))

Descendants(t, n) == {m \in Ids(t) : IsAncestor(t, n, m)}

\* the elements of a set of ids as a sequence in document order
RECURSIVE SortIds(_)
SortIds(S) ==
    IF S = {} THEN <<>>
    ELSE LET m == CHOOSE x \in S : \A y \in S : x <= y
         IN <<m>> \o SortIds(S \ {m})

Children(t, n) == SortIds({m \in Ids(t) : t[m].parent = n})

\* the namespace prefixes in scope at node n ("" is the default namespace)
RECURSIVE InScope(_, _)
InScope(t, n) ==
    IF n <= 0 THEN {}
    ELSE {t[n].nsdecl[i] : i \in 1..Len(t[n].nsdecl)} \cup InScope(t, t[n].parent)

\* the element is in no namespace (the elements a local-name path selects)
NoNamespace(t, n) == t[n].p = "" /\ "" \notin InScope(t, n)

-----------------------------------------------------------------------------
(* lxml: node.xpath(path).  The paths of the model are relative location *)
(* paths  step ("/" step)*  whose steps are "." or a local name, and       *)
(* expressions with an unclosed "[", which libxml2 rejects                 *)

Malformed(path) == \E i \in 1..Len(path) : path[i] = "["

RECURSIVE Select(_, _, _)
\* the node-set (in document order) the steps select from the nodes ctx
Select(t, ctx, path) ==
    IF path = <<>> THEN SortIds(ctx)
    ELSE LET step == path[1]
             rest == IF Len(path) >= 2 THEN SubSeq(path, 3, Len(path)) ELSE <<>>
             next == IF step = "." THEN ctx
                     ELSE {m \in Ids(t) : /\ t[m].parent \in ctx
                                          /\ t[m].tag = step
                                          /\ NoNamespace(t, m)}
         IN Select(t, next, rest)

\* [err: XPathEvalError for a malformed expression, nodes: the matches]
xpath(t, n, path) ==
    IF Malformed(path) THEN [err |-> "XPathEvalError", nodes |-> <<>>]
    ELSE [err |-> "", nodes |-> Select(t, {n}, path)]

\* mutant of safe_xpath: the error is logged and not raised again
safe_xpath_swallow(t, n, path) ==
    [err |-> "", nodes |-> xpath(t, n, path).nodes]

safe_xpath(t, n, path) ==
    LET r == xpath(t, n, path)
    IN IF r.err # "" THEN [err |-> r.err, nodes |-> <<>>] ELSE r

-----------------------------------------------------------------------------
(* Field resolver                                                          *)

\* re.match(r'^(.*?)(=\w+)?$', path): the attribute is the word after the
\* last "=" when that word ends the string; the path is what precedes it
parse_field_path(path) ==
    LET n == Len(path)
        hasAttr == n >= 2 /\ IsWord(path[n]) /\ path[n - 1] = "="
        node_path == IF hasAttr THEN SubSeq(path, 1, n - 2) ELSE path
        attribute == IF hasAttr THEN Some(path[n]) ELSE None
    IN <<IF node_path = <<>> THEN <<".">> ELSE node_path, attribute>>

\* mutant of clean_value: None is not tested for and str(None) is cleaned
clean_value_str_none(value) ==
    IF value = None THEN <<"None">>
    ELSE IF STRIP_WHITESPACE THEN strip(value[1]) ELSE value[1]

\* value is Optional str; the result is a str
clean_value(value) ==
    IF value = None THEN <<>>
    ELSE IF STRIP_WHITESPACE THEN strip(value[1]) ELSE value[1]

\* matches[0].attrib.get(attr, default)
attrib_get(t, n, attr, default) ==
    LET hits == {i \in 1..Len(t[n].attrib) :
                    t[n].attrib[i].p = "" /\ t[n].attrib[i].n = attr}
    IN IF hits = {} THEN default
       ELSE t[n].attrib[CHOOSE i \in hits : TRUE].v

\* mutant of field_value: the last match is read instead of the first
field_value_last(t, node, field) ==
    IF field = <<>> THEN [err |-> "", value |-> Some(<<>>)]
    ELSE LET pf == parse_field_path(field)
             matches == safe_xpath(t, node, pf[1])
             last == matches.nodes[Len(matches.nodes)]
         IN IF matches.err # "" THEN [err |-> matches.err, value |-> None]
            ELSE IF matches.nodes = <<>> THEN [err |-> "", value |-> Some(<<>>)]
            ELSE IF pf[2] # None
                 THEN [err |-> "", value |-> Some(attrib_get(t, last, pf[2][1], <<>>))]
            ELSE [err |-> "", value |-> t[last].text]

\* the body of the loop of format_line: the value appended for one field
field_value(t, node, field) ==
    IF field = <<>> THEN [err |-> "", value |-> Some(<<>>)]
    ELSE LET pf == parse_field_path(field)
             matches == safe_xpath(t, node, pf[1])
         IN IF matches.err # "" THEN [err |-> matches.err, value |-> None]
            ELSE IF matches.nodes = <<>> THEN [err |-> "", value |-> Some(<<>>)]
            ELSE IF pf[2] # None
                 THEN [err |-> "", value |->
                          Some(attrib_get(t, matches.nodes[1], pf[2][1], <<>>))]
            ELSE [err |-> "", value |-> t[matches.nodes[1]].text]

RECURSIVE format_values(_, _, _, _)
\* the loop of format_line followed by map(clean_value, values)
format_values(t, node, fields, values) ==
    IF fields = <<>>
    THEN [err |-> "", values |-> [i \in 1..Len(values) |-> clean_value(values[i])]]
    ELSE LET r == field_value(t, node, fields[1])
         IN IF r.err # "" THEN [err |-> r.err, values |-> <<>>]
            ELSE format_values(t, node, Tail(fields), Append(values, r.value))

\* mutant of format_line: the line is kept only when all values are non-empty
format_line_all(code, t, node, fields) ==
    LET r == format_values(t, node, fields, <<>>)
        line == join(BAR, <<code>> \o r.values) \o <<"\n">>
    IN IF r.err # "" THEN [err |-> r.err, out |-> <<>>]
       ELSE [err |-> "",
             out |-> IF \A i \in 1..Len(r.values) : r.values[i] # <<>>
                     THEN line ELSE <<>>]

format_line(code, t, node, fields) ==
    LET r == format_values(t, node, fields, <<>>)
        line == join(BAR, <<code>> \o r.values) \o <<"\n">>
    IN IF r.err # "" THEN [err |-> r.err, out |-> <<>>]
       ELSE [err |-> "",
             out |-> IF \E i \in 1..Len(r.values) : r.values[i] # <<>>
                     THEN line ELSE <<>>]

-----------------------------------------------------------------------------
(* Templates: an ordered mapping is a sequence of [code, value] entries; a *)
(* value is a field list, a mapping, or anything else (str, number, null)  *)

FieldList(fields) == [kind |-> "list", fields |-> fields, entries |-> <<>>]
SubTemplate(entries) == [kind |-> "dict", fields |-> <<>>, entries |-> entries]
Other == [kind |-> "other", fields |-> <<>>, entries |-> <<>>]
Entry(code, value) == [code |-> code, value |-> value]

\* the argument node of process_node: one element or a list of elements
One(n) == [isList |-> FALSE, id |-> n, items |-> <<>>]
Many(ns) == [isList |-> TRUE, id |-> 0, items |-> ns]

RECURSIVE process_node(_, _, _)
RECURSIVE process_node_items(_, _, _, _)
RECURSIVE process_node_entries(_, _, _, _)

\* lines 105-106: for item in node: output += process_node(item, template)
process_node_items(t, items, template, output) ==
    IF items = <<>> THEN [err |-> "", out |-> output]
    ELSE LET r == process_node(t, One(items[1]), template)
         IN IF r.err # "" THEN [err |-> r.err, out |-> <<>>]
            ELSE process_node_items(t, Tail(items), template, output \o r.out)

\* mutant of process_node_entries: each entry's text is put before the
\* text produced so far
process_node_entries_prepend(t, node, entries, output) ==
    IF entries = <<>> THEN [err |-> "", out |-> output]
    ELSE LET code == entries[1].code
             value == entries[1].value
             sub_nodes == safe_xpath(t, node, code)
             r == IF value.kind = "list"
                  THEN format_line(code, t, node, value.fields)
                  ELSE IF value.kind = "dict"
                  THEN IF sub_nodes.err # ""
                       THEN [err |-> sub_nodes.err, out |-> <<>>]
                       ELSE process_node(t, Many(sub_nodes.nodes), value)
                  ELSE [err |-> "", out |-> <<>>]
         IN IF r.err # "" THEN [err |-> r.err, out |-> <<>>]
            ELSE process_node_entries(t, node, Tail(entries), r.out \o output)

\* lines 109-114: for code, value in template.items(): ...
process_node_entries(t, node, entries, output) ==
    IF entries = <<>> THEN [err |-> "", out |-> output]
    ELSE LET code == entries[1].code
             value == entries[1].value
             sub_nodes == safe_xpath(t, node, code)
             r == IF value.kind = "list"
                  THEN format_line(code, t, node, value.fields)
                  ELSE IF value.kind = "dict"
                  THEN IF sub_nodes.err # ""
                       THEN [err |-> sub_nodes.err, out |-> <<>>]
                       ELSE process_node(t, Many(sub_nodes.nodes), value)
                  ELSE [err |-> "", out |-> <<>>]
         IN IF r.err # "" THEN [err |-> r.err, out |-> <<>>]
            ELSE process_node_entries(t, node, Tail(entries), output \o r.out)

\* template.items() of a value that is no mapping raises AttributeError
process_node(t, node, template) ==
    IF node.isList THEN process_node_items(t, node.items, template, <<>>)
    ELSE IF template.kind # "dict" THEN [err |-> "AttributeError", out |-> <<>>]
    ELSE process_node_entries(t, node.id, template.entries, <<>>)

-----------------------------------------------------------------------------
(* Serialized XML.  Tokens:  open  <p:n     xmlns   xmlns:p="..."          *)
(*   attr   p:n="v"    gt  >    sc  />    close  </p:n>    chr  a text atom *)
(* (xmlns and attr tokens are written after one space)                     *)

Tok(k, p, n, v) == [k |-> k, p |-> p, n |-> n, v |-> v]

Chars(s) == [i \in 1..Len(s) |-> Tok("chr", "", s[i], <<>>)]

OptChars(o) == IF o = None THEN <<>> ELSE Chars(o[1])

RECURSIVE Dedup(_)
\* a sequence without the later occurrences of its elements
Dedup(s) ==
    IF s = <<>> THEN <<>>
    ELSE LET init == Dedup(SubSeq(s, 1, Len(s) - 1))
             x == s[Len(s)]
         IN IF \E i \in 1..Len(init) : init[i] = x THEN init ELSE Append(init, x)

RECURSIVE NsChain(_, _)
\* the declarations of n followed by those of its ancestors, nearest first
NsChain(t, n) ==
    IF n <= 0 THEN <<>> ELSE t[n].nsdecl \o NsChain(t, t[n].parent)

RECURSIVE Serialize(_, _, _, _)
RECURSIVE SerializeAll(_, _)

SerializeAll(t, kids) ==
    IF kids = <<>> THEN <<>>
    ELSE Serialize(t, kids[1], FALSE, TRUE) \o SerializeAll(t, Tail(kids))

\* the subtree of n; the top element carries the declarations in scope
Serialize(t, n, top, with_tail) ==
    LET decls == IF top THEN Dedup(NsChain(t, n)) ELSE t[n].nsdecl
        kids == Children(t, n)
    IN <<Tok("open", t[n].p, t[n].tag, <<>>)>>
       \o [i \in 1..Len(decls) |-> Tok("xmlns", decls[i], "", <<>>)]
       \o [i \in 1..Len(t[n].attrib) |->
              Tok("attr", t[n].attrib[i].p, t[n].attrib[i].n, t[n].attrib[i].v)]
       \o (IF t[n].text = None /\ kids = <<>>
           THEN <<Tok("sc", "", "", <<>>)>>
           ELSE <<Tok("gt", "", "", <<>>)>> \o OptChars(t[n].text)
                \o SerializeAll(t, kids)
                \o <<Tok("close", t[n].p, t[n].tag, <<>>)>>)
       \o (IF with_tail THEN OptChars(t[n].tail) ELSE <<>>)

\* etree.tostring(node, encoding='unicode'): with_tail defaults to True
tostring(t, n) == Serialize(t, n, TRUE, TRUE)

IsNewline(tok) == tok.k = "chr" /\ tok.n = "\n"
HasQuotedValue(tok) == tok.k \in {"xmlns", "attr"}

RECURSIVE strip_xmlns(_)
\* re.sub(r"xmlns.*=\".*?\"", "", node_str): the match starts at the first
\* xmlns and, ".*" being greedy, ends with the last quoted value of the line
strip_xmlns(s) ==
    LET starts == {i \in 1..Len(s) : s[i].k = "xmlns"}
    IN IF starts = {} THEN s
       ELSE LET i == CHOOSE x \in starts : \A y \in starts : x <= y
                nls == {e \in (i + 1)..Len(s) : IsNewline(s[e])}
                eol == IF nls = {} THEN Len(s) + 1
                       ELSE CHOOSE x \in nls : \A y \in nls : x <= y
                ends == {j \in i..(eol - 1) : HasQuotedValue(s[j])}
                j == CHOOSE x \in ends : \A y \in ends : x >= y
            IN SubSeq(s, 1, i - 1) \o strip_xmlns(SubSeq(s, j + 1, Len(s)))

\* re.sub(r'\s\w+?:(\w+?=".*?)', r" \g<1>", node_str): the prefix of a
\* prefixed name that follows a space and precedes =" is dropped
strip_attr_prefix(s) ==
    [i \in 1..Len(s) |->
        IF s[i].k = "attr" /\ s[i].p # "" THEN Tok("attr", "", s[i].n, s[i].v)
        ELSE IF s[i].k = "xmlns" /\ s[i].p # "" THEN Tok("attr", "", s[i].p, <<>>)
        ELSE s[i]]

\* the text read so far followed by one more atom
AddChar(o, c) == IF o = None THEN Some(<<c>>) ELSE Some(Append(o[1], c))

\* the index of the first token after the attributes of the tag opened at i
RECURSIVE TagEnd(_, _)
TagEnd(s, i) ==
    IF i <= Len(s) /\ HasQuotedValue(s[i]) THEN TagEnd(s, i + 1) ELSE i

RECURSIVE Parse(_, _, _, _, _)
\* libxml2 on the tokens from i on: t the elements built so far, stack the
\* open elements (innermost last), closed the element whose end tag was
\* read last, 0 when text belongs to the innermost open element
Parse(s, i, t, stack, closed) ==
    LET fail == [err |-> "XMLSyntaxError", tree |-> <<>>]
    IN
    IF i > Len(s)
    THEN IF stack = <<>> /\ t # <<>> THEN [err |-> "", tree |-> t] ELSE fail
    ELSE
    LET tok == s[i] IN
    CASE tok.k = "open" ->
            LET j == TagEnd(s, i + 1)
                decls == {x \in (i + 1)..(j - 1) : s[x].k = "xmlns"}
                attrs == {x \in (i + 1)..(j - 1) : s[x].k = "attr"}
                id == Len(t) + 1
                parent == IF stack = <<>> THEN 0 ELSE stack[Len(stack)]
                nsdecl == [x \in 1..Cardinality(decls) |-> s[SortIds(decls)[x]].p]
                attrib == [x \in 1..Cardinality(attrs) |->
                              Attr(s[SortIds(attrs)[x]].p, s[SortIds(attrs)[x]].n,
                                   s[SortIds(attrs)[x]].v)]
                new == Node(parent, tok.p, tok.n, nsdecl, attrib, None, None)
                t2 == Append(t, new)
                scope == InScope(t2, id)
                wellFormed ==
                    /\ j <= Len(s) /\ s[j].k \in {"gt", "sc"}
                    \* one root element only
                    /\ stack # <<>> \/ t = <<>>
                    \* every prefix is declared
                    /\ tok.p # "" => tok.p \in scope
                    /\ \A x \in attrs : s[x].p # "" => s[x].p \in scope
                    \* no attribute is given twice
                    /\ \A x, y \in attrs :
                          x # y => <<s[x].p, s[x].n>> # <<s[y].p, s[y].n>>
                    /\ \A x, y \in decls : x # y => s[x].p # s[y].p
            IN IF ~wellFormed THEN fail
               ELSE IF s[j].k = "sc" THEN Parse(s, j + 1, t2, stack, id)
               ELSE Parse(s, j + 1, t2, Append(stack, id), 0)
      [] tok.k = "chr" ->
            IF stack = <<>>
            THEN IF tok.n \in Whitespace
                 THEN Parse(s, i + 1, t, stack, closed) ELSE fail
            ELSE IF closed = 0
            THEN LET top == stack[Len(stack)]
                 IN Parse(s, i + 1,
                          [t EXCEPT ![top].text = AddChar(@, tok.n)], stack, closed)
            ELSE Parse(s, i + 1,
                       [t EXCEPT ![closed].tail = AddChar(@, tok.n)], stack, closed)
      [] tok.k = "close" ->
            IF stack = <<>> THEN fail
            ELSE LET top == stack[Len(stack)]
                 IN IF t[top].p = tok.p /\ t[top].tag = tok.n
                    THEN Parse(s, i + 1, t, SubSeq(stack, 1, Len(stack) - 1), top)
                    ELSE fail
      [] OTHER -> fail

\* etree.fromstring(node_str)
fromstring(s) == Parse(s, 1, <<>>, <<>>, 0)

node_processor(node_str, template) ==
    LET node == fromstring(strip_attr_prefix(strip_xmlns(node_str)))
    IN IF node.err # "" THEN [err |-> node.err, out |-> <<>>]
       ELSE process_node(node.tree, One(1), template)

-----------------------------------------------------------------------------
(* Root template index                                                     *)

RootEntry(key, value) == [key |-> key, value |-> value]

RECURSIVE get_root_templates_loop(_, _)
\* lines 138-142; a root template key is Optional (None or a code)
get_root_templates_loop(entries, rt) ==
    IF entries = <<>> THEN rt
    ELSE LET key == entries[1].code
             value == entries[1].value
             at(k) == {i \in 1..Len(rt) : rt[i].key = k}
             idx(k) == CHOOSE i \in at(k) : TRUE
             \* root_templates.setdefault(None, OrderedDict())
             rt1 == IF at(None) = {}
                    THEN Append(rt, RootEntry(None, SubTemplate(<<>>))) ELSE rt
             grp == CHOOSE i \in 1..Len(rt1) : rt1[i].key = None
             next ==
                IF value.kind = "list"
                THEN [rt1 EXCEPT ![grp].value.entries = Append(@, Entry(key, value))]
                ELSE IF at(Some(key)) = {}
                THEN Append(rt, RootEntry(Some(key), value))
                ELSE [rt EXCEPT ![idx(Some(key))].value = value]
         IN get_root_templates_loop(Tail(entries), next)

get_root_templates(template) == get_root_templates_loop(template.entries, <<>>)

\* the local names selected by  f"{{*}}{tag}" for tag in root_templates.keys()
root_tags(rt) ==
    {IF rt[i].key = None THEN "None"
     ELSE IF Len(rt[i].key[1]) = 1 THEN rt[i].key[1][1] ELSE "" : i \in 1..Len(rt)}

-----------------------------------------------------------------------------
(* iterparse                                                               *)

\* the last node of the subtree of n
LastOf(t, n) ==
    LET S == Descendants(t, n) \cup {n} IN CHOOSE x \in S : \A y \in S : x >= y

\* the end tag of a is read before the end tag of b
EndsBefore(t, a, b) == IsAncestor(t, b, a) \/ (a < b /\ ~IsAncestor(t, a, b))

RECURSIVE SortByEnd(_, _)
SortByEnd(t, S) ==
    IF S = {} THEN <<>>
    ELSE LET m == CHOOSE x \in S : \A y \in S \ {x} : EndsBefore(t, x, y)
         IN <<m>> \o SortByEnd(t, S \ {m})

\* the "end" events of the elements whose local name is one of tags
EndEvents(t, tags) == SortByEnd(t, {n \in Ids(t) : t[n].tag \in tags})

\* node.clear(): children, attributes, text and tail are dropped; the
\* element itself stays in its parent
clear(t, n, tail_read) ==
    [m \in Ids(t) |->
        IF m = n THEN [t[m] EXCEPT !.attrib = <<>>, !.text = None,
                                   !.tail = IF tail_read THEN None ELSE @]
        ELSE IF IsAncestor(t, n, m) THEN [t[m] EXCEPT !.parent = -1]
        ELSE t[m]]

\* the parse-tree nodes still referenced from the tree iterparse builds
Retained == {m \in 1..parsed : tree[m].parent # -1}

-----------------------------------------------------------------------------
(* Inputs                                                                  *)

Names == <<"A", "B", "C">>
Texts == <<"10", "20", "30">>
Pick(seq, i) == seq[((i - 1) % Len(seq)) + 1]

Elem(parent, tag, attrib, text) == Node(parent, "", tag, <<>>, attrib, text, None)

\* <root><item name="A">10</item><item name="B">20</item>...</root>
ItemsDoc(k) ==
    [i \in 1..(k + 1) |->
        IF i = 1 THEN Elem(0, "root", <<>>, None)
        ELSE Elem(1, "item", <<Attr("", "name", <<Pick(Names, i - 1)>>)>>,
                  Some(<<Pick(Texts, i - 1)>>))]

\* <root><item name="A">10</item><item name="B"></item></root>
DocC9 ==
    << Elem(0, "root", <<>>, None),
       Elem(1, "item", <<Attr("", "name", <<"A">>)>>, Some(<<"10">>)),
       Elem(1, "item", <<Attr("", "name", <<"B">>)>>, None) >>

\* <root><item name="B"/><item name=" A ">t<sub id="s1"> 1 </sub><sub>2</sub>
\* <other/></item><item/></root>
DocRich ==
    << Elem(0, "root", <<>>, None),
       Elem(1, "item", <<Attr("", "name", <<"B">>)>>, None),
       Elem(1, "item", <<Attr("", "name", <<" ", "A", " ">>)>>, Some(<<"t">>)),
       Elem(3, "sub", <<Attr("", "id", <<"s1">>)>>, Some(<<" ", "1", " ">>)),
       Elem(3, "sub", <<>>, Some(<<"2">>)),
       Elem(3, "other", <<>>, None),
       Elem(1, "item", <<>>, None) >>

\* <root><sub>s1</sub><item name="A">10</item><sub>s2</sub></root>
DocMixed ==
    << Elem(0, "root", <<>>, None),
       Elem(1, "sub", <<>>, Some(<<"s1">>)),
       Elem(1, "item", <<Attr("", "name", <<"A">>)>>, Some(<<"10">>)),
       Elem(1, "sub", <<>>, Some(<<"s2">>)) >>

\* <root><item name="A">10<sub>x</sub></item><item name="B">20</item></root>
DocNested ==
    << Elem(0, "root", <<>>, None),
       Elem(1, "item", <<Attr("", "name", <<"A">>)>>, Some(<<"10">>)),
       Elem(2, "sub", <<>>, Some(<<"x">>)),
       Elem(1, "item", <<Attr("", "name", <<"B">>)>>, Some(<<"20">>)) >>

\* <root><item>10</item> <item>20</item>junk<item>30</item></root>
DocTail ==
    << Elem(0, "root", <<>>, None),
       Node(1, "", "item", <<>>, <<>>, Some(<<"10">>), Some(<<" ">>)),
       Node(1, "", "item", <<>>, <<>>, Some(<<"20">>), Some(<<"junk">>)),
       Elem(1, "item", <<>>, Some(<<"30">>)) >>

\* <ns:root xmlns:ns="u"><ns:item name="A">10</ns:item></ns:root>
DocNs ==
    << Node(0, "ns", "root", <<"ns">>, <<>>, None, None),
       Node(1, "ns", "item", <<>>, <<Attr("", "name", <<"A">>)>>,
            Some(<<"10">>), None) >>

\* <root xmlns="u"><item name="A">10</item><item>20</item>
\* <item><sub id="s1">1</sub></item></root>
DocDefaultNs ==
    << Node(0, "", "root", <<"">>, <<>>, None, None),
       Elem(1, "item", <<Attr("", "name", <<"A">>)>>, Some(<<"10">>)),
       Elem(1, "item", <<>>, Some(<<"20">>)),
       Elem(1, "item", <<>>, None),
       Elem(4, "sub", <<Attr("", "id", <<"s1">>)>>, Some(<<"1">>)) >>

\* <root xmlns:x="u"><item>(newline)<sub x:id="s1">1</sub></item></root>
DocPretty ==
    << Node(0, "", "root", <<"x">>, <<>>, None, None),
       Elem(1, "item", <<>>, Some(<<"\n">>)),
       Elem(2, "sub", <<Attr("x", "id", <<"s1">>)>>, Some(<<"1">>)) >>

\* <root><None>10</None></root>
DocNoneTag ==
    << Elem(0, "root", <<>>, None),
       Elem(1, "None", <<>>, Some(<<"10">>)) >>

Docs ==
    {ItemsDoc(k) : k \in 0..MaxItems}
    \cup {DocC9, DocRich, DocMixed, DocNested, DocTail, DocNs, DocDefaultNs,
          DocPretty, DocNoneTag}

\* field specifiers
FSelf == <<".">>
FSelfName == <<".", "=", "name">>
FName == <<"=", "name">>
FId == <<"=", "id">>
FSub == <<"sub">>
FSubId == <<"sub", "=", "id">>
FMissing == <<"missing">>
FMissingName == <<"missing", "=", "name">>
FBad == <<"sub", "[">>

\* {"root": {"item": [".=name", "."]}}
TplC9 ==
    SubTemplate(<< Entry(<<"root">>, SubTemplate(<<
        Entry(<<"item">>, FieldList(<<FSelfName, FSelf>>)) >>)) >>)

\* {"item": {"item": [".=name", "."]}}
TplItem ==
    SubTemplate(<< Entry(<<"item">>, SubTemplate(<<
        Entry(<<"item">>, FieldList(<<FSelfName, FSelf>>)) >>)) >>)

\* {"item": {"hdr": ["=name", "", ".", "missing", "sub=id"],
\*           "sub": {"s": [".", "=id"]},
\*           "none": ["missing=name", "other", ""],
\*           "missing": {"m": ["."]},
\*           "first": ["sub", "./sub=id"]}}
TplRich ==
    SubTemplate(<< Entry(<<"item">>, SubTemplate(<<
        Entry(<<"hdr">>, FieldList(<<FName, <<>>, FSelf, FMissing, FSubId>>)),
        Entry(<<"sub">>, SubTemplate(<<
            Entry(<<"s">>, FieldList(<<FSelf, FId>>)) >>)),
        Entry(<<"none">>, FieldList(<<FMissingName, <<"other">>, <<>> >>)),
        Entry(<<"missing">>, SubTemplate(<<
            Entry(<<"m">>, FieldList(<<FSelf>>)) >>)),
        Entry(<<"first">>, FieldList(<<FSub, <<".", "/", "sub", "=", "id">> >>))
        >>)) >>)

\* {"item": {"i": [".", "=name"]}, "sub": {"s": ["."]}}
TplTwo ==
    SubTemplate(<<
        Entry(<<"item">>, SubTemplate(<<
            Entry(<<"i">>, FieldList(<<FSelf, FName>>)),
            Entry(<<"sub">>, SubTemplate(<<
                Entry(<<"x">>, FieldList(<<FSelf>>)) >>)) >>)),
        Entry(<<"sub">>, SubTemplate(<<
            Entry(<<"s">>, FieldList(<<FSelf>>)) >>)) >>)

\* {"item": {"ok": ["."], "sub": {"bad": ["sub["]}}}
TplBadField ==
    SubTemplate(<< Entry(<<"item">>, SubTemplate(<<
        Entry(<<"ok">>, FieldList(<<FSelf>>)),
        Entry(<<"sub">>, SubTemplate(<<
            Entry(<<"bad">>, FieldList(<<FBad>>)) >>)) >>)) >>)

\* {"item": {"i": ["=name"]}, "sub": {"sub[": {"s": ["."]}}}
TplBadKey ==
    SubTemplate(<<
        Entry(<<"item">>, SubTemplate(<<
            Entry(<<"i">>, FieldList(<<FName>>)) >>)),
        Entry(<<"sub">>, SubTemplate(<<
            Entry(FBad, SubTemplate(<<
                Entry(<<"s">>, FieldList(<<FSelf>>)) >>)) >>)) >>)

\* {"item": {"x": "oops", "item": ["."], "sub": {"y": 3, "s": ["."]}}}
TplOtherNested ==
    SubTemplate(<< Entry(<<"item">>, SubTemplate(<<
        Entry(<<"x">>, Other),
        Entry(<<"item">>, FieldList(<<FSelf>>)),
        Entry(<<"sub">>, SubTemplate(<<
            Entry(<<"y">>, Other),
            Entry(<<"s">>, FieldList(<<FSelf>>)) >>)) >>)) >>)

\* {"sub": {"s": ["."]}, "item": "oops"}
TplOtherTop ==
    SubTemplate(<<
        Entry(<<"sub">>, SubTemplate(<<
            Entry(<<"s">>, FieldList(<<FSelf>>)) >>)),
        Entry(<<"item">>, Other) >>)

\* {"top": ["."], "item": {"i": ["."]}, "top2": ["=name"]}
TplTopList ==
    SubTemplate(<<
        Entry(<<"top">>, FieldList(<<FSelf>>)),
        Entry(<<"item">>, SubTemplate(<<
            Entry(<<"i">>, FieldList(<<FSelf>>)) >>)),
        Entry(<<"top2">>, FieldList(<<FName>>)) >>)

Templates ==
    {TplC9, TplItem, TplRich, TplTwo, TplBadField, TplBadKey, TplOtherNested,
     TplOtherTop, TplTopList}

Delimiters == {<<"|">>, <<",">>}

-----------------------------------------------------------------------------
(* run()                                                                   *)

NoYield == [node |-> 0, tail_read |-> FALSE]

\* XMLProcessor(): the state after __init__
Init ==
    /\ BAR = <<"|">>
    /\ STRIP_WHITESPACE = TRUE
    /\ buffer = <<>>
    /\ processed_count = 0
    /\ pc = "start"
    /\ err = ""
    /\ source_xml = <<>>
    /\ config = SubTemplate(<<>>)
    /\ root_templates = <<>>
    /\ out = <<>>
    /\ tree = <<>>
    /\ parsed = 0
    /\ yielded = NoYield
    /\ live = None
    /\ history = <<>>

\* line 170: the files named on the command line and the options
parse_cli_args ==
    /\ pc = "start"
    /\ source_xml' \in Docs
    /\ config' \in Templates
    /\ BAR' \in Delimiters
    /\ STRIP_WHITESPACE' \in BOOLEAN
    /\ pc' = "open"
    /\ UNCHANGED <<buffer, processed_count, err, root_templates, out, tree,
                   parsed, yielded, live, history>>

\* lines 174-178: the output file is created, the root templates are
\* indexed and the generator is created
open_output ==
    /\ pc = "open"
    /\ out' = <<>>
    /\ root_templates' = get_root_templates(config)
    /\ tree' = source_xml
    /\ pc' = "next"
    /\ UNCHANGED <<BAR, STRIP_WHITESPACE, buffer, processed_count, err,
                   source_xml, config, parsed, yielded, live, history>>

\* the tree after the statement that follows the suspended yield (line 133)
AfterYield ==
    IF yielded.node = 0 THEN tree ELSE clear(tree, yielded.node, yielded.tail_read)

\* the events iterparse has still to deliver
Pending ==
    LET events == EndEvents(source_xml, root_tags(root_templates))
        at == {k \in 1..Len(events) : events[k] = yielded.node}
        k == IF at = {} THEN 0 ELSE CHOOSE x \in at : TRUE
    IN SubSeq(events, k + 1, Len(events))

\* root_templates[etree.QName(node).localname]
RootTemplate(localname) ==
    LET at == {i \in 1..Len(root_templates) :
                  root_templates[i].key = Some(<<localname>>)}
    IN IF at = {} THEN None
       ELSE Some(root_templates[CHOOSE i \in at : TRUE].value)

\* line 178 (next of node_generator, lines 130-133): the suspended
\* generator clears the node it yielded, iterparse delivers the next end
\* event, and the node is serialized.  iterparse reads the file in chunks:
\* when the event is delivered the parser has read the element's end tag and
\* possibly more of the document.
generator_yield ==
    /\ pc = "next"
    /\ Pending # <<>>
    /\ LET node == Pending[1]
           last == LastOf(source_xml, node)
           lo == IF parsed > last THEN parsed ELSE last
       IN \E cursor \in lo..Len(source_xml), tail_read \in BOOLEAN :
             /\ cursor > last => tail_read
             /\ source_xml[node].tail = None => tail_read
             /\ parsed' = cursor
             /\ tree' = AfterYield
             /\ yielded' = [node |-> node, tail_read |-> tail_read]
             /\ LET template == RootTemplate(source_xml[node].tag)
                    node_str == Serialize(tree', node, TRUE, tail_read)
                IN IF template = None
                   THEN /\ pc' = "error"
                        /\ err' = "KeyError"
                        /\ live' = None
                   ELSE /\ pc' = "process"
                        /\ err' = err
                        /\ live' = Some([node |-> node, node_str |-> node_str,
                                         template |-> template[1]])
    /\ UNCHANGED <<BAR, STRIP_WHITESPACE, buffer, processed_count, source_xml,
                   config, root_templates, out, history>>

\* line 178: the generator is exhausted
generator_stop ==
    /\ pc = "next"
    /\ Pending = <<>>
    /\ tree' = AfterYield
    /\ parsed' = Len(source_xml)
    /\ yielded' = NoYield
    /\ pc' = "final"
    /\ UNCHANGED <<BAR, STRIP_WHITESPACE, buffer, processed_count, err,
                   source_xml, config, root_templates, out, live, history>>

\* lines 179-180: the subtree is interpreted and its text appended to the
\* buffer; an exception leaves run() (the file is closed, the buffer is
\* not written)
process ==
    /\ pc = "process"
    /\ LET r == node_processor(live[1].node_str, live[1].template)
       IN IF r.err # ""
          THEN /\ pc' = "error"
               /\ err' = r.err
               /\ UNCHANGED <<buffer, processed_count, live, history>>
          ELSE /\ pc' = "flush"
               /\ buffer' = Append(buffer, r.out)
               /\ processed_count' = processed_count + 1
               /\ history' = Append(history, [node |-> live[1].node,
                                              node_str |-> live[1].node_str,
                                              template |-> live[1].template,
                                              out |-> r.out])
               /\ live' = None
               /\ err' = err
    /\ UNCHANGED <<BAR, STRIP_WHITESPACE, source_xml, config, root_templates,
                   out, tree, parsed, yielded>>

\* mutant of buffer_full: the buffer is flushed one record late
buffer_full_late(buf) == Len(buf) > buffer_size

\* line 183
buffer_full(buf) == Len(buf) >= buffer_size

\* the file and the buffer after write_buffer_to_file(out)
write_buffer_to_file(file, buf) ==
    IF buf # <<>> THEN <<file \o Concat(buf), <<>>>> ELSE <<file, buf>>

\* lines 183-188
flush_if_full ==
    /\ pc = "flush"
    /\ LET w == IF buffer_full(buffer) THEN write_buffer_to_file(out, buffer)
                ELSE <<out, buffer>>
       IN out' = w[1] /\ buffer' = w[2]
    /\ pc' = "next"
    /\ UNCHANGED <<BAR, STRIP_WHITESPACE, processed_count, err, source_xml,
                   config, root_templates, tree, parsed, yielded, live, history>>

\* line 191
final_flush ==
    /\ pc = "final"
    /\ LET w == write_buffer_to_file(out, buffer)
       IN out' = w[1] /\ buffer' = w[2]
    /\ pc' = "done"
    /\ UNCHANGED <<BAR, STRIP_WHITESPACE, processed_count, err, source_xml,
                   config, root_templates, tree, parsed, yielded, live, history>>

Next ==
    \/ parse_cli_args
    \/ open_output
    \/ generator_yield
    \/ generator_stop
    \/ process
    \/ flush_if_full
    \/ final_flush

Spec == Init /\ [][Next]_vars

-----------------------------------------------------------------------------
(* Vocabulary of the properties                                            *)

\* the tree node_processor interprets for a serialized subtree
Reparsed(node_str) == fromstring(strip_attr_prefix(strip_xmlns(node_str)))

\* a subtree is being interpreted and its string parses
Interpreting == pc = "process" /\ Reparsed(live[1].node_str).err = ""
LiveTree == Reparsed(live[1].node_str).tree

RECURSIVE AllEntries(_)
\* the entries of a template at every nesting depth
AllEntries(template) ==
    {template.entries[i] : i \in 1..Len(template.entries)}
    \cup UNION {AllEntries(template.entries[i].value) : i \in 1..Len(template.entries)}

FieldLists(template) == {e \in AllEntries(template) : e.value.kind = "list"}
SubTemplates(template) ==
    {template} \cup {e.value : e \in {x \in AllEntries(template) : x.value.kind = "dict"}}
Specifiers(template) ==
    UNION {{e.value.fields[i] : i \in 1..Len(e.value.fields)} : e \in FieldLists(template)}

\* the cleaned value one field specifier resolves to
Resolve(t, n, field) == clean_value(field_value(t, n, field).value)

\* no selection of the field list is malformed
Selectable(fields) ==
    \A i \in 1..Len(fields) :
        fields[i] # <<>> => ~Malformed(parse_field_path(fields[i])[1])

-----------------------------------------------------------------------------
\* C1: format_line returns the code and the cleaned values joined by the
\* delimiter, plus a newline, exactly when some resolved value is non-empty
\* after cleaning, and returns the empty text when all of them are empty.
C1_LineIffSomeValue ==
    Interpreting =>
        \A n \in Ids(LiveTree), e \in FieldLists(config) :
            LET fields == e.value.fields
                values == [i \in 1..Len(fields) |-> Resolve(LiveTree, n, fields[i])]
                r == format_line(e.code, LiveTree, n, fields)
            IN Selectable(fields) =>
                  /\ r.err = ""
                  /\ IF \E i \in 1..Len(fields) : values[i] # <<>>
                     THEN r.out = join(BAR, <<e.code>> \o values) \o <<"\n">>
                     ELSE r.out = <<>>

\* a line with an empty and a non-empty value is returned and a line whose
\* values are all empty is suppressed, for the same subtree
C1_Witness ==
    /\ Interpreting
    /\ \E n \in Ids(LiveTree), e \in FieldLists(config) :
          /\ Selectable(e.value.fields)
          /\ \E i, j \in 1..Len(e.value.fields) :
                /\ Resolve(LiveTree, n, e.value.fields[i]) = <<>>
                /\ Resolve(LiveTree, n, e.value.fields[j]) # <<>>
          /\ format_line(e.code, LiveTree, n, e.value.fields).out # <<>>
    /\ \E n \in Ids(LiveTree), e \in FieldLists(config) :
          /\ Len(e.value.fields) >= 2
          /\ Selectable(e.value.fields)
          /\ \A i \in 1..Len(e.value.fields) :
                Resolve(LiveTree, n, e.value.fields[i]) = <<>>
          /\ format_line(e.code, LiveTree, n, e.value.fields).out = <<>>

-----------------------------------------------------------------------------
\* what one entry of a template produces for a node
EntryOutput(t, n, entry) ==
    IF entry.value.kind = "list"
    THEN format_line(entry.code, t, n, entry.value.fields).out
    ELSE IF entry.value.kind = "dict"
    THEN process_node(t, Many(xpath(t, n, entry.code).nodes), entry.value).out
    ELSE <<>>

Increasing(ns) == \A i, j \in 1..Len(ns) : i < j => ns[i] < ns[j]

\* C2: the output of process_node for a node is the concatenation of the
\* outputs of the template's entries in declaration order; for the list of
\* nodes a key selects it is the concatenation of the per-node outputs in
\* the order of the list, which is document order; an empty selection gives
\* empty output and no error.
C2_DeclarationAndDocumentOrder ==
    Interpreting =>
        \A n \in Ids(LiveTree), tpl \in SubTemplates(config) :
            LET r == process_node(LiveTree, One(n), tpl)
            IN r.err = "" =>
                /\ r.out = Concat([i \in 1..Len(tpl.entries) |->
                                      EntryOutput(LiveTree, n, tpl.entries[i])])
                /\ \A k \in 1..Len(tpl.entries) :
                      tpl.entries[k].value.kind = "dict" =>
                        LET ns == xpath(LiveTree, n, tpl.entries[k].code).nodes
                            sub == tpl.entries[k].value
                            rs == process_node(LiveTree, Many(ns), sub)
                        IN /\ Increasing(ns)
                           /\ rs.err = ""
                           /\ rs.out = Concat([i \in 1..Len(ns) |->
                                 process_node(LiveTree, One(ns[i]), sub).out])
                           /\ ns = <<>> => rs.out = <<>>

\* a node for which two entries produce different non-empty text, a key
\* selects two nodes with different outputs, and another key selects none
C2_Witness ==
    /\ Interpreting
    /\ \E n \in Ids(LiveTree), tpl \in SubTemplates(config) :
          /\ process_node(LiveTree, One(n), tpl).err = ""
          /\ \E a, b \in 1..Len(tpl.entries) :
                /\ a < b
                /\ EntryOutput(LiveTree, n, tpl.entries[a]) # <<>>
                /\ EntryOutput(LiveTree, n, tpl.entries[b]) # <<>>
                /\ EntryOutput(LiveTree, n, tpl.entries[a])
                      # EntryOutput(LiveTree, n, tpl.entries[b])
          /\ \E k \in 1..Len(tpl.entries) :
                /\ tpl.entries[k].value.kind = "dict"
                /\ LET ns == xpath(LiveTree, n, tpl.entries[k].code).nodes
                   IN /\ Len(ns) >= 2
                      /\ process_node(LiveTree, One(ns[1]), tpl.entries[k].value).out
                            # process_node(LiveTree, One(ns[2]), tpl.entries[k].value).out
          /\ \E k \in 1..Len(tpl.entries) :
                /\ tpl.entries[k].value.kind = "dict"
                /\ xpath(LiveTree, n, tpl.entries[k].code).nodes = <<>>

-----------------------------------------------------------------------------
HasAttribute(t, n, name) ==
    \E i \in 1..Len(t[n].attrib) : t[n].attrib[i].p = "" /\ t[n].attrib[i].n = name

\* C3: a field specifier whose path is well formed resolves without an
\* error; to the empty string when the path matches no node, when the first
\* match lacks the attribute and when the first match has no text; and
\* otherwise to the cleaned attribute or text of the first match.
C3_MissingDataIsEmpty ==
    Interpreting =>
        \A n \in Ids(LiveTree), f \in Specifiers(config) \ {<<>>} :
            LET pf == parse_field_path(f)
                m == xpath(LiveTree, n, pf[1])
                first == m.nodes[1]
                r == field_value(LiveTree, n, f)
            IN m.err = "" =>
                /\ r.err = ""
                /\ m.nodes = <<>> => Resolve(LiveTree, n, f) = <<>>
                /\ (m.nodes # <<>> /\ pf[2] # None
                        /\ ~HasAttribute(LiveTree, first, pf[2][1]))
                     => Resolve(LiveTree, n, f) = <<>>
                /\ (m.nodes # <<>> /\ pf[2] = None /\ LiveTree[first].text = None)
                     => Resolve(LiveTree, n, f) = <<>>
                /\ (m.nodes # <<>> /\ pf[2] # None
                        /\ HasAttribute(LiveTree, first, pf[2][1]))
                     => r.value = Some(attrib_get(LiveTree, first, pf[2][1], <<>>))
                /\ (m.nodes # <<>> /\ pf[2] = None) => r.value = LiveTree[first].text

\* the three missing-data cases occur, and a path matches two nodes of
\* which only the first has the requested attribute
C3_Witness ==
    /\ Interpreting
    /\ \E n \in Ids(LiveTree), f \in Specifiers(config) \ {<<>>} :
          /\ ~Malformed(parse_field_path(f)[1])
          /\ xpath(LiveTree, n, parse_field_path(f)[1]).nodes = <<>>
    /\ \E n \in Ids(LiveTree), f \in Specifiers(config) \ {<<>>} :
          LET pf == parse_field_path(f)
              m == xpath(LiveTree, n, pf[1])
          IN /\ m.err = "" /\ m.nodes # <<>> /\ pf[2] # None
             /\ ~HasAttribute(LiveTree, m.nodes[1], pf[2][1])
    /\ \E n \in Ids(LiveTree), f \in Specifiers(config) \ {<<>>} :
          LET pf == parse_field_path(f)
              m == xpath(LiveTree, n, pf[1])
          IN /\ m.err = "" /\ m.nodes # <<>> /\ pf[2] = None
             /\ LiveTree[m.nodes[1]].text = None
    /\ \E n \in Ids(LiveTree), f \in Specifiers(config) \ {<<>>} :
          LET pf == parse_field_path(f)
              m == xpath(LiveTree, n, pf[1])
          IN /\ m.err = "" /\ Len(m.nodes) >= 2 /\ pf[2] # None
             /\ HasAttribute(LiveTree, m.nodes[1], pf[2][1])
             /\ ~HasAttribute(LiveTree, m.nodes[2], pf[2][1])
             /\ Resolve(LiveTree, n, f) # <<>>

-----------------------------------------------------------------------------
\* the elements of the input the root templates match, by start tag
Matched ==
    SortIds({n \in Ids(source_xml) : source_xml[n].tag \in root_tags(root_templates)})

\* the interpretation of a matched subtree as it stands in the input
ExpectedOutput(n) ==
    node_processor(Serialize(source_xml, n, TRUE, FALSE),
                   RootTemplate(source_xml[n].tag)[1]).out

\* C4: in every state the bytes written followed by the pending buffer are
\* the outputs of the matched subtrees processed so far, in document order;
\* when the run completes the buffer is empty and the file holds the output
\* of every matched subtree.
C4_OutputInDocumentOrder ==
    /\ processed_count <= Len(Matched)
    /\ out \o Concat(buffer) =
          Concat([i \in 1..processed_count |-> ExpectedOutput(Matched[i])])
    /\ pc = "done" => buffer = <<>> /\ processed_count = Len(Matched)

-----------------------------------------------------------------------------
Depth(t, n) == Cardinality({a \in Ids(t) : IsAncestor(t, a, n)})
SubtreeSize(t, n) == Cardinality(Descendants(t, n)) + 1

\* the size of the largest matched subtree of the input
LargestMatched ==
    LET sizes == {SubtreeSize(source_xml, Matched[i]) : i \in 1..Len(Matched)}
    IN CHOOSE x \in sizes : \A y \in sizes : x >= y

\* the matched element handled before the one being interpreted
Previous == history[Len(history)].node

\* C5: once a matched element has been yielded and cleared, the parse-tree
\* nodes scanned up to its end tag and still retained are at most those of
\* one matched subtree and the ancestors of the element, however many
\* elements were scanned before it.
C5_RetentionBoundedBySubtree ==
    (pc = "process" /\ history # <<>>) =>
        Cardinality({m \in Retained : m <= LastOf(source_xml, Previous)})
            <= LargestMatched + Depth(source_xml, Previous)

-----------------------------------------------------------------------------
\* the same serialized element written without namespaces
Unqualified(s) ==
    LET keep == SortIds({i \in 1..Len(s) : s[i].k # "xmlns"})
    IN [i \in 1..Len(keep) |-> Tok(s[keep[i]].k, "", s[keep[i]].n, s[keep[i]].v)]

\* C6: a matched element that carries a namespace prefix is surfaced and
\* node_processor interprets it as it interprets the same element written
\* with local names only, without a parse error.
C6_PrefixedElementInterpreted ==
    (pc = "process" /\ source_xml[live[1].node].p # "") =>
        LET r == node_processor(live[1].node_str, live[1].template)
            u == Reparsed(Unqualified(live[1].node_str))
        IN u.err = "" =>
              /\ r.err # "XMLSyntaxError"
              /\ r = process_node(u.tree, One(1), live[1].template)

-----------------------------------------------------------------------------
RECURSIVE BadPathReached(_, _, _)
\* interpreting node n against the template evaluates a malformed path
BadPathReached(t, n, template) ==
    \E k \in 1..Len(template.entries) :
        LET e == template.entries[k]
        IN \/ /\ e.value.kind = "list"
              /\ \E i \in 1..Len(e.value.fields) :
                    /\ e.value.fields[i] # <<>>
                    /\ Malformed(parse_field_path(e.value.fields[i])[1])
           \/ /\ e.value.kind = "dict"
              /\ \/ Malformed(e.code)
                 \/ \E i \in 1..Len(xpath(t, n, e.code).nodes) :
                       BadPathReached(t, xpath(t, n, e.code).nodes[i], e.value)

HistoryNodes == [i \in 1..Len(history) |-> history[i].node]

\* C7: a subtree whose interpretation evaluates a malformed path is never
\* among the processed ones; the run ends in the error at that subtree,
\* with exactly the subtrees before it interpreted, and neither the file
\* nor the buffer holds text of the failing or of a later subtree.
C7_SelectionErrorIsFatal ==
    /\ \A i \in 1..Len(history) :
          ~BadPathReached(Reparsed(history[i].node_str).tree, 1, history[i].template)
    /\ (pc = "error" /\ err = "XPathEvalError") =>
          /\ live # None
          /\ BadPathReached(LiveTree, 1, live[1].template)
          /\ processed_count = Len(history)
          /\ HistoryNodes \o <<live[1].node>> \o Pending
                = EndEvents(source_xml, root_tags(root_templates))
          /\ out \o Concat(buffer) = Concat([i \in 1..Len(history) |-> history[i].out])

\* the run has failed at a subtree that follows an interpreted one whose
\* text is pending and that precedes a matched one
C7_Witness ==
    /\ pc = "error"
    /\ err = "XPathEvalError"
    /\ history # <<>>
    /\ buffer # <<>>
    /\ Pending # <<>>

-----------------------------------------------------------------------------
\* the template has, at some depth, a value that is no list and no mapping
HasInvalidEntry(template) == \E e \in AllEntries(template) : e.value.kind = "other"

\* C8: with a template that holds, at any depth, a value that is neither a
\* list nor a mapping, no subtree is processed and the run does not
\* complete.
C8_InvalidTemplateAborts ==
    HasInvalidEntry(config) => history = <<>> /\ pc # "done"

-----------------------------------------------------------------------------
C9Lines == <<"item", "|", "A", "|", "10", "\n", "item", "|", "B", "|", "\n">>

\* C9 as stated: for <root><item name="A">10</item><item name="B"></item>
\* </root>, the template {"root": {"item": [".=name", "."]}} and "|", the
\* output is the line item|A|10 followed by the line item|B|.
C9_RootTemplateOutput ==
    (pc = "done" /\ source_xml = DocC9 /\ config = TplC9 /\ BAR = <<"|">>)
        => out = C9Lines

\* C9 as amended: for that input and "|", the template {"root": {"item":
\* [".=name", "."]}} gives no output (its field list is resolved against
\* the root element), and the template {"item": {"item": [".=name", "."]}}
\* gives the line item|A|10 followed by the line item|B|.
C9_ItemTemplateOutput ==
    (pc = "done" /\ source_xml = DocC9 /\ BAR = <<"|">>) =>
        /\ config = TplC9 => out = <<>> /\ processed_count = 1
        /\ config = TplItem => out = C9Lines /\ processed_count = 2

C9_Witness ==
    /\ pc = "done" /\ source_xml = DocC9 /\ config = TplItem /\ BAR = <<"|">>
    /\ out = C9Lines

-----------------------------------------------------------------------------
\* C10: the buffer never holds more than buffer_size outputs, it holds
\* fewer than buffer_size when the loop asks for the next subtree, and at
\* most one serialized subtree is held, which is the one being interpreted.
C10_BufferBounded ==
    /\ Len(buffer) <= buffer_size
    /\ pc = "next" => Len(buffer) < buffer_size
    /\ Len(live) <= 1
    /\ pc = "process" => Len(live) = 1
    /\ pc \in {"next", "flush", "final", "done"} => live = None

\* the buffer has reached buffer_size and is about to be written
C10_Witness ==
    /\ pc = "flush"
    /\ Len(buffer) = buffer_size
    /\ Pending # <<>>

====
